---- MODULE Spec2Model ----
(***************************************************************************)
(* End-to-end memory network with RNN-like weight tying                    *)
(* (texar/modules/memory/memory_network.py): the attention layer           *)
(* MemNetSingleLayer and the multi-hop forward pass MemNetRNNLike._build.  *)
(*                                                                         *)
(* Tensors are modelled for one batch element.  A vector of width dim is a *)
(* sequence of integers, a matrix a sequence of rows.  Probabilities       *)
(* (softmax output, keep_prob, the uniform noise) are fixed-point numbers: *)
(* softmax weights in eighths, keep_prob and noise in halves.              *)
(***************************************************************************)
EXTENDS Integers, Sequences, FiniteSets

\* ------------------------------------------------------------------ bounds
MaxHops == 2
MaxDim == 2
MaxCalls == 2
memory_size == 2
vocab_size == 2

VARIABLES
    hp,             \* the hyperparameters and trained parameters of the instance
    pc,             \* position of the forward call: idle, loop, raised, returned
    calls,          \* forward calls started on the instance
    query,          \* raw query argument of the current call
    memory,         \* memory argument (ids) of the current call
    u,              \* self.u, the hop-state list
    m,              \* self.m
    c,              \* self.c
    keep_prob,      \* keep probability of the current call, in halves
    binary_tensor,  \* the variational mask (<<>> when none was drawn)
    logits,         \* returned logits (<<>> when nothing was returned)
    built,          \* MemNetRNNLike._built
    AC_built,       \* MemNetSingleLayer._built of self.AC
    AC_regH,        \* times self.AC executed _add_trainable_variable(self._H)
    AC_calls,       \* calls of self.AC over the life of the instance
    tr,             \* per-call trace: calls of A, B, C, AC, mask draws, registrations
    hops,           \* per-call trace: one record per completed hop
    prev            \* the previous returned call: <<>> or <<[query, memory, logits]>>

vars == <<hp, pc, calls, query, memory, u, m, c, keep_prob, binary_tensor,
          logits, built, AC_built, AC_regH, AC_calls, tr, hops, prev>>

\* --------------------------------------------------------------- helpers
RECURSIVE SumTo(_, _)
SumTo(f, n) == IF n = 0 THEN 0 ELSE f[n] + SumTo(f, n - 1)

Max(a, b) == IF a >= b THEN a ELSE b

RECURSIVE MaxOf(_, _)
MaxOf(f, n) == IF n = 1 THEN f[1] ELSE Max(f[n], MaxOf(f, n - 1))

Dot(a, b) == SumTo([i \in 1..Len(a) |-> a[i] * b[i]], Len(a))

\* tf.matmul of a row vector and a matrix given as a sequence of rows
MatMul(x, W) ==
    [j \in 1..Len(W[1]) |-> SumTo([i \in 1..Len(x) |-> x[i] * W[i][j]], Len(x))]

Add(a, b) == [i \in 1..Len(a) |-> a[i] + b[i]]

Relu(x) == [i \in 1..Len(x) |-> Max(0, x[i])]

FirstState(s) == s[1]

\* self.u[-1]
LastState(s) == s[Len(s)]

\* the element of a one-element set; { e(x) : x \in {v} } names the value v once
The(S) == CHOOSE x \in S : TRUE

\* tf.nn.softmax in eighths: exp(s[i] - max) tabulated at 8*e^0, 8*e^-1, 8*e^-2
ExpNeg(d) == IF d = 0 THEN 8 ELSE IF d = 1 THEN 3 ELSE IF d = 2 THEN 1 ELSE 0

Softmax(s) ==
    The({ The({ The({ [i \in 1..Len(e) |-> (e[i] * 8) \div t] :
                      t \in {SumTo(e, Len(e))} }) :
                e \in {[i \in 1..Len(sv) |-> ExpNeg(MaxOf(sv, Len(sv)) - sv[i])]} }) :
          sv \in {s} })

\* -------------------------------------------------- MemNetSingleLayer
\* p = softmax(m u), equ. (1)
AC_p(uu, mm) == Softmax([i \in 1..Len(mm) |-> Dot(mm[i], uu)])

\* o = p c, equ. (2)
AC_o(uu, mm, cc) ==
    The({ [j \in 1..Len(uu) |->
              SumTo([i \in 1..Len(cc) |-> p[i] * cc[i][j]], Len(cc)) \div 8] :
          p \in {AC_p(uu, mm)} })

CombineHOnO(uu, o, H) == IF H # <<>> THEN Add(uu, MatMul(o, H)) ELSE Add(uu, o)

\* if self._H: u = matmul(u, H);  u_ = add(u, o)
Combine(uu, o, H) == IF H # <<>> THEN Add(MatMul(uu, H), o) ELSE Add(uu, o)

AC_build(uu, mm, cc, H) == The({ Combine(uu, o, H) : o \in {AC_o(uu, mm, cc)} })

NeedRegisterAlways(isBuilt) == TRUE

\* if not self._built:
NeedRegister(isBuilt) == ~isBuilt

\* ------------------------------------------------------ collaborators
\* embedding tables of the A, C and final-matrix embedders, width d
EmbA(v, d) == [i \in 1..d |-> ((v + i) % 3) - 1]
EmbC(v, d) == [i \in 1..d |-> ((2 * v + i) % 3) - 1]
EmbFinal(v, d) == [i \in 1..d |-> v - i]

A(mem, d) == [i \in 1..Len(mem) |-> EmbA(mem[i], d)]
C(mem, d) == [i \in 1..Len(mem) |-> EmbC(mem[i], d)]
B(q) == [i \in 1..Len(q) |-> 1 - q[i]]

\* tf.transpose(WordEmbedder(...).embedding): dim rows, vocab_size columns
final_matrix(d) == [i \in 1..d |-> [v \in 1..vocab_size |-> EmbFinal(v, d)[i]]]

switch_dropout(kp) == kp

\* ------------------------------------------------------------- inputs
DropoutRates == {0, 1}          \* dropout_rate in halves: 0 and 1/2

HSet(d) ==
    { [i \in 1..d |-> [j \in 1..d |-> IF j = i THEN 2 ELSE IF j = i + 1 THEN -1 ELSE 0]] }

Queries(d) ==
    { [i \in 1..d |-> 1],
      [i \in 1..d |-> IF i = 1 THEN -2 ELSE 1] }

Memories ==
    { [i \in 1..memory_size |-> 1],
      [i \in 1..memory_size |-> IF i = 1 THEN vocab_size ELSE 1] }

\* tf.random_uniform in halves: each element 0 or 1/2
Noises(d) ==
    { [i \in 1..d |-> 1],
      [i \in 1..d |-> i % 2] }

HParams ==
    { h \in [n_hops : 0..MaxHops, dim : 1..MaxDim, reludim : -1..(MaxDim + 1),
             need_H : BOOLEAN, dropout_rate : DropoutRates,
             variational : BOOLEAN, has_B : BOOLEAN] :
        h.reludim <= h.dim + 1 }

\* self.H of MemNetBase.__init__: a dim x dim variable when need_H, else None (<<>>)
HChoices(h) == IF h.need_H THEN HSet(h.dim) ELSE {<<>>}

\* the draws of tf.random_uniform open to a step that draws, else none
NoiseChoices(draws) == IF draws THEN Noises(hp.dim) ELSE {<<>>}

\* ------------------------------------------------------ MemNetRNNLike
AccumulateU(old, q) == Append(old, q)

\* self.u = [query]
FreshU(old, q) == <<q>>

LegalReludim == hp.reludim >= 0 /\ hp.reludim <= hp.dim

PartialReluLeading(x, reludim, dim) ==
    IF reludim = 0 THEN x
    ELSE IF reludim = dim THEN Relu(x)
    ELSE Relu(SubSeq(x, 1, reludim)) \o SubSeq(x, reludim + 1, dim)

\* the reludim branches of the hop, for 0 <= reludim <= dim
PartialRelu(x, reludim, dim) ==
    IF reludim = 0 THEN x
    ELSE IF reludim = dim THEN Relu(x)
    ELSE LET linear_part == SubSeq(x, 1, dim - reludim)
             relu_part == SubSeq(x, dim - reludim + 1, dim)
             relued_part == Relu(relu_part)
         IN  linear_part \o relued_part

FloorOfNoise(kp, noise) == [i \in 1..Len(noise) |-> noise[i] \div 2]

\* tf.floor(keep_prob + noise), keep_prob and noise in halves
BinaryTensor(kp, noise) == [i \in 1..Len(noise) |-> (kp + noise[i]) \div 2]

\* tf.div(val, keep_prob) * binary_tensor
variational_dropout(val, kp, mask) ==
    [i \in 1..Len(val) |-> ((val[i] * 2) \div kp) * mask[i]]

HopDropoutFresh(val, noise) ==
    LET fresh == IF noise = <<>> THEN [i \in 1..Len(val) |-> i % 2] ELSE noise
        mask == BinaryTensor(keep_prob, fresh)
    IN  [out |-> variational_dropout(val, keep_prob, mask), mask |-> mask, drew |-> 1]

\* the dropout of one hop: the shared mask when variational, else tf.nn.dropout
HopDropout(val, noise) ==
    IF hp.variational
    THEN [out |-> variational_dropout(val, keep_prob, binary_tensor),
          mask |-> binary_tensor, drew |-> 0]
    ELSE LET mask == BinaryTensor(keep_prob, noise)
         IN  [out |-> variational_dropout(val, keep_prob, mask),
              mask |-> mask, drew |-> 1]

HopsRemainOneMore(k) == k <= hp.n_hops

\* for k in range(self._n_hops)
HopsRemain(k) == k < hp.n_hops

NoTrace == [A |-> 0, B |-> 0, C |-> 0, AC |-> 0, draws |-> 0, regs |-> 0]

Init ==
    /\ \E h \in HParams : \E H \in HChoices(h) :
          hp = [n_hops |-> h.n_hops, dim |-> h.dim, reludim |-> h.reludim,
                need_H |-> h.need_H, dropout_rate |-> h.dropout_rate,
                variational |-> h.variational, has_B |-> h.has_B, H |-> H]
    /\ pc = "idle"
    /\ calls = 0
    /\ query = <<>>
    /\ memory = <<>>
    /\ u = <<>>
    /\ m = <<>>
    /\ c = <<>>
    /\ keep_prob = 2
    /\ binary_tensor = <<>>
    /\ logits = <<>>
    /\ built = FALSE
    /\ AC_built = FALSE
    /\ AC_regH = 0
    /\ AC_calls = 0
    /\ tr = NoTrace
    /\ hops = <<>>
    /\ prev = <<>>

\* _build up to the hop loop: B, self.u, self.m, self.c, keep_prob, the shared mask
Call ==
    /\ pc \in {"idle", "returned", "raised"}
    /\ calls < MaxCalls
    /\ \E q \in Queries(hp.dim), mem \in Memories,
          noise \in NoiseChoices(hp.variational) :
          LET q0 == IF hp.has_B THEN B(q) ELSE q
              kp == switch_dropout(2 - hp.dropout_rate)
          IN  /\ query' = q
              /\ memory' = mem
              /\ u' = FreshU(u, q0)
              /\ m' = A(mem, hp.dim)
              /\ c' = C(mem, hp.dim)
              /\ keep_prob' = kp
              /\ binary_tensor' = IF hp.variational THEN BinaryTensor(kp, noise)
                                                    ELSE <<>>
              /\ tr' = [NoTrace EXCEPT !.A = 1, !.C = 1,
                                       !.B = IF hp.has_B THEN 1 ELSE 0,
                                       !.draws = IF hp.variational THEN 1 ELSE 0]
    /\ prev' = IF pc = "returned"
               THEN <<[query |-> query, memory |-> memory, logits |-> logits]>>
               ELSE prev
    /\ calls' = calls + 1
    /\ logits' = <<>>
    /\ hops' = <<>>
    /\ pc' = "loop"
    /\ UNCHANGED <<hp, built, AC_built, AC_regH, AC_calls>>

\* the side effects of one call of self.AC
ACEffects ==
    /\ AC_calls' = AC_calls + 1
    /\ AC_built' = TRUE
    /\ AC_regH' = IF NeedRegister(AC_built) /\ hp.H # <<>> THEN AC_regH + 1
                                                          ELSE AC_regH

ACRegs == IF NeedRegister(AC_built) THEN (IF hp.H # <<>> THEN 2 ELSE 1) ELSE 0

\* one iteration of the hop loop with 0 <= reludim <= dim
Hop ==
    /\ pc = "loop"
    /\ HopsRemain(Len(hops))
    /\ LegalReludim
    /\ ACEffects
    /\ \E noise \in NoiseChoices(~hp.variational) :
       \E u_in \in {LastState(u)} :
       \E o \in {AC_o(u_in, m, c)} :
       \E raw \in {AC_build(u_in, m, c, hp.H)} :
       \E act \in {PartialRelu(raw, hp.reludim, hp.dim)} :
       \E d \in {HopDropout(act, noise)} :
          /\ u' = Append(u, d.out)
          /\ hops' = Append(hops, [u_in |-> u_in, m |-> m, c |-> c, o |-> o,
                                   raw |-> raw, act |-> act, mask |-> d.mask,
                                   out |-> d.out])
          /\ tr' = [tr EXCEPT !.AC = @ + 1, !.draws = @ + d.drew,
                              !.regs = @ + ACRegs]
    /\ UNCHANGED <<hp, pc, calls, query, memory, m, c, keep_prob, binary_tensor,
                   logits, built, prev>>

\* the first iteration of the hop loop with reludim outside [0, dim]
HopRaise ==
    /\ pc = "loop"
    /\ HopsRemain(Len(hops))
    /\ ~LegalReludim
    /\ ACEffects
    /\ tr' = [tr EXCEPT !.AC = @ + 1, !.regs = @ + ACRegs]
    /\ pc' = "raised"
    /\ UNCHANGED <<hp, calls, query, memory, u, m, c, keep_prob, binary_tensor,
                   logits, built, hops, prev>>

\* after the loop: the logits and the first-call registration
Return ==
    /\ pc = "loop"
    /\ ~HopsRemain(Len(hops))
    /\ logits' = MatMul(LastState(u), final_matrix(hp.dim))
    /\ built' = TRUE
    /\ tr' = [tr EXCEPT !.regs = @ + (IF built THEN 0 ELSE 1)]
    /\ pc' = "returned"
    /\ UNCHANGED <<hp, calls, query, memory, u, m, c, keep_prob, binary_tensor,
                   AC_built, AC_regH, AC_calls, hops, prev>>

Next == Call \/ Hop \/ HopRaise \/ Return

Spec == Init /\ [][Next]_vars

\* ------------------------------------------------------------- claims
\* the query that enters the hop loop: B(query) when a query_embed_fn is given
q0 == IF hp.has_B THEN B(query) ELSE query

InCall == pc \in {"loop", "returned"}

AllOnes(x) == \A i \in 1..Len(x) : x[i] = 1

\* C1: after any completed forward call, the first or a later one, self.u holds
\* exactly n_hops + 1 states: u[0] is the (optionally B-transformed) query and
\* u[k] is the state hop k produced from u[k-1]; nothing of earlier calls is left.
C1_HopStates ==
    pc = "returned" =>
        /\ Len(u) = hp.n_hops + 1
        /\ Len(hops) = hp.n_hops
        /\ u[1] = q0
        /\ \A k \in 1..hp.n_hops : u[k + 1] = hops[k].out /\ hops[k].u_in = u[k]

C1_Witness ==
    /\ pc = "returned"
    /\ calls = 2
    /\ hp.n_hops = 2
    /\ LegalReludim
    /\ Len(u) = 3

\* C2: with reludim negative or greater than dim, for every n_hops >= 0, a forward
\* call ends in the configuration error and returns no logits.
C2_IllegalReludimRaises ==
    (~LegalReludim /\ pc \in {"returned", "raised"}) =>
        (pc = "raised" /\ logits = <<>>)

\* C3: when the configuration error is raised, nothing of the forward pass has
\* happened before it: no A, no C, no B, no attention-layer call, no registration.
C3_RaisedBeforeComputation ==
    pc = "raised" =>
        (tr.A = 0 /\ tr.C = 0 /\ tr.B = 0 /\ tr.AC = 0 /\ tr.regs = 0)

\* C4: for 0 <= reludim <= dim the activation of a hop leaves the leading
\* dim - reludim elements of the raw hop result as they are and replaces each of
\* the trailing reludim elements x by max(0, x).
C4_PartialActivation ==
    \A k \in 1..Len(hops) :
        /\ Len(hops[k].act) = hp.dim
        /\ \A i \in 1..hp.dim :
              hops[k].act[i] = IF i <= hp.dim - hp.reludim
                               THEN hops[k].raw[i]
                               ELSE (IF hops[k].raw[i] < 0 THEN 0 ELSE hops[k].raw[i])

C4_Witness ==
    /\ hp.reludim > 0
    /\ hp.reludim < hp.dim
    /\ \E k \in 1..Len(hops) :
          /\ hops[k].raw[1] < 0
          /\ hops[k].act[1] = hops[k].raw[1]
          /\ hops[k].raw[hp.dim] < 0
          /\ hops[k].act[hp.dim] = 0

\* C5: with variational = true exactly one mask is drawn in a forward call, before
\* the loop, and every hop applies that mask (so hop 1 and hop n_hops apply the
\* same mask); no hop draws a mask.
C5_SharedMask ==
    (hp.variational /\ InCall) =>
        /\ tr.draws = 1
        /\ \A k \in 1..Len(hops) :
              /\ hops[k].mask = binary_tensor
              /\ hops[k].mask = hops[1].mask
              /\ \A i \in 1..hp.dim :
                    hops[k].out[i] =
                        ((hops[k].act[i] * 2) \div keep_prob) * binary_tensor[i]

C5_Witness ==
    /\ hp.variational
    /\ hp.dropout_rate = 1
    /\ pc = "returned"
    /\ hp.n_hops = 2
    /\ ~AllOnes(binary_tensor)
    /\ hops[1].mask = hops[2].mask
    /\ hops[2].out # hops[2].act

\* C6: with n_hops = 0 a forward call makes no attention-layer call, its final
\* state is the (optionally transformed) query and its logits are the projection
\* of that query; a call with the same query as the previous returned call has
\* the same logits, whatever the two memories.
C6_ZeroHops ==
    (hp.n_hops = 0 /\ pc = "returned") =>
        /\ tr.AC = 0
        /\ u = <<q0>>
        /\ logits = [v \in 1..vocab_size |->
                        SumTo([i \in 1..hp.dim |-> q0[i] * EmbFinal(v, hp.dim)[i]],
                              hp.dim)]
        /\ (prev # <<>> /\ prev[1].query = query) => prev[1].logits = logits

C6_Witness ==
    /\ hp.n_hops = 0
    /\ pc = "returned"
    /\ prev # <<>>
    /\ prev[1].query = query
    /\ prev[1].memory # memory
    /\ prev[1].logits = logits

\* C7: with need_H and n_hops >= 1, over all forward calls on the instance the
\* attention layer registers H exactly once, on its first call, never again.
C7_HRegisteredOnce ==
    (hp.need_H /\ hp.n_hops >= 1) =>
        AC_regH = (IF AC_calls >= 1 THEN 1 ELSE 0)

C7_Witness ==
    /\ hp.need_H
    /\ hp.n_hops = 2
    /\ calls = 2
    /\ pc = "returned"
    /\ AC_calls = 4
    /\ AC_regH = 1

RECURSIVE NoDropoutRun(_)
\* the hop-state list (as a one-element set) of a run of n hops on the current
\* q0, m and c that has no dropout step
NoDropoutRun(n) ==
    IF n = 0 THEN {<<q0>>}
    ELSE UNION { UNION { { Append(s, act) :
                           act \in {PartialRelu(raw, hp.reludim, hp.dim)} } :
                         raw \in {AC_build(s[Len(s)], m, c, hp.H)} } :
                 s \in NoDropoutRun(n - 1) }

\* C8: with dropout_rate = 0 keep_prob is 1, every mask (the shared one and each
\* per-hop one) is all ones and the dropout of a hop returns its input, so the hop
\* states and the logits are those of a run without any dropout step.
C8_NoDropoutIdentity ==
    (hp.dropout_rate = 0 /\ pc # "idle") =>
        /\ keep_prob = 2
        /\ hp.variational => AllOnes(binary_tensor) /\ Len(binary_tensor) = hp.dim
        /\ \A k \in 1..Len(hops) : AllOnes(hops[k].mask) /\ hops[k].out = hops[k].act
        /\ pc = "returned" =>
              \A s \in NoDropoutRun(hp.n_hops) :
                  /\ u = s
                  /\ logits = MatMul(s[Len(s)], final_matrix(hp.dim))

C8_Witness ==
    /\ hp.dropout_rate = 0
    /\ hp.variational
    /\ pc = "returned"
    /\ hp.n_hops = 2
    /\ \E i \in 1..hp.dim : hops[2].act[i] < 0
    /\ hops[2].out = hops[2].act

C10_MemoryFixed ==
    pc # "idle" =>
        /\ tr.A = 1
        /\ tr.C = 1
        /\ m = A(memory, hp.dim)
        /\ c = C(memory, hp.dim)
        /\ \A k \in 1..Len(hops) :
              /\ hops[k].m = m
              /\ hops[k].c = c
              /\ hops[k].u_in = u[k]

C10_Witness ==
    /\ pc = "returned"
    /\ hp.n_hops = 2
    /\ hops[1].m = hops[2].m
    /\ hops[1].c = hops[2].c
    /\ hops[2].u_in = hops[1].out
    /\ hops[2].u_in # hops[1].u_in

====
